---- MODULE Spec2Model ----
(***************************************************************************)
(* Model of the KUHO voting application (src/app/page.tsx): the client     *)
(* state of the Home component, the three Firestore collections it talks   *)
(* to (config, movies, votes), the vote rule of VotingPhase.handleVote and *)
(* the aggregation of ResultsPhase.results.                                *)
(*                                                                         *)
(* Client state is kept per client (browser tab), keyed by a client id;    *)
(* the store is shared.  A snapshot listener is an action of its own: it   *)
(* may run at any time after the client has signed in and replaces the     *)
(* client's copy by the store's current content.                           *)
(*                                                                         *)
(* Not modelled: title/link/comment of a movie, the updatedAt/createdAt    *)
(* timestamps (a movie id stands for its creation rank), failures of the   *)
(* store (a write that is issued is applied), a change of the identity of  *)
(* a client that is signed in, the import of the AdminPanel (a sequence of *)
(* nominations by the administrator).                                      *)
(* A write a handler awaits is applied in the                              *)
(* handler's step; the write the config listener does not await is applied *)
(* in a step of its own.                                                   *)
(***************************************************************************)
EXTENDS Integers, Sequences, FiniteSets, TLC

\* ------------------------------------------------------------------ bounds
\* number of nominated movies in the store when voting starts (SpecBallot)
NumMovies == 8
\* number of movies that may ever be nominated in SpecCatalog
MaxCreated == 1
\* ids that may occur in the inputs of the tally (SpecTally)
NumTallyIds == 2
\* number of vote documents handed to the tally (SpecTally)
MaxBallots == 2

\* ------------------------------------------------------- program constants
\* remainingPlus={7 - plusUsed}
MAX_POSITIVE == 7
\* remainingMinus={1 - minusUsed}
MAX_NEGATIVE == 1
\* user.email === 'tomas.pouzar@gmail.com'
ADMIN_EMAIL == "tomas.pouzar@gmail.com"
\* ['nomination', 'voting', 'results']
Phases == {"nomination", "voting", "results"}

VARIABLES
    \* --- external collaborators
    authSession,  \* client -> the identity the auth provider reports to it
    configDoc,    \* config/app_state: "missing" or its currentPhase
    moviesColl,   \* collection movies: set of Movie documents
    created,      \* number of movie documents ever created
    votesColl,    \* collection votes: uid -> VoteDoc, for the existing docs
    \* --- Home state, per client
    user,         \* useState<FirebaseUser | null>
    phase,        \* useState('nomination')
    movies,       \* useState<Movie[]>
    myVotes,      \* useState<Record<string, number>>
    allVotes,     \* useState<VoteDoc[]>
    results,      \* ResultsPhase: the memoised results of the last render
    configWrite,  \* the config listener's setDoc is issued and not applied
    \* --- observation
    lastVote      \* the handleVote call made since the last votes snapshot

vars == <<authSession, configDoc, moviesColl, created, votesColl,
          user, phase, movies, myVotes, allVotes, results, configWrite,
          lastVote>>

storeVars == <<configDoc, moviesColl, created, votesColl>>

Clients == DOMAIN user

\* ------------------------------------------------------------------ values
NoUser == [uid |-> 0, displayName |-> "", email |-> ""]

\* {} as Record<string, number>
EmptyMap == [k \in {} |-> 0]

\* interface Movie, without title, link, comment; id is the creation rank
Movie(id, nominatorId, nominator) ==
    [id |-> id, nominatorId |-> nominatorId, nominator |-> nominator]

\* interface VoteDoc, without updatedAt
VoteDoc(votes, userName) == [votes |-> votes, userName |-> userName]

\* votes[key] || 0
VoteOf(votes, key) == IF key \in DOMAIN votes THEN votes[key] ELSE 0

\* setDoc(doc(db, coll, id), data): the document is replaced as a whole
SetDocAlone(coll, id, data) == [k \in {id} |-> data]
SetDoc(coll, id, data) ==
    [k \in DOMAIN coll \cup {id} |-> IF k = id THEN data ELSE coll[k]]

\* setDoc(doc(db, coll, id), data, { merge: true }): the fields of data are
\* written, the other fields of an existing document are kept
MergeDocReplace(coll, id, data) == SetDoc(coll, id, data)
MergeDoc(coll, id, data) ==
    SetDoc(coll, id, IF id \in DOMAIN coll THEN data @@ coll[id] ELSE data)

\* snap.docs of a collection whose ids are numbers: ascending id order
RECURSIVE SnapDocs(_)
SnapDocs(coll) ==
    IF DOMAIN coll = {} THEN <<>>
    ELSE LET k == CHOOSE x \in DOMAIN coll : \A y \in DOMAIN coll : x <= y
         IN  <<coll[k]>> \o SnapDocs([j \in DOMAIN coll \ {k} |-> coll[j]])

\* query(collection(db, COLL_MOVIES), orderBy('createdAt', 'desc'))
RECURSIVE OrderByCreatedAtDesc(_)
OrderByCreatedAtDesc(docs) ==
    IF docs = {} THEN <<>>
    ELSE LET m == CHOOSE x \in docs : \A y \in docs : y.id <= x.id
         IN  <<m>> \o OrderByCreatedAtDesc(docs \ {m})

\* ------------------------------------------------------------ allowances
\* Object.values(myVotes).filter(v => v === 1).length
plusUsed(votes) == Cardinality({k \in DOMAIN votes : votes[k] = 1})
\* Object.values(myVotes).filter(v => v === -1).length
minusUsed(votes) == Cardinality({k \in DOMAIN votes : votes[k] = -1})

\* remainingPlus={7 - plusUsed}
remainingPlus(votes) == MAX_POSITIVE - plusUsed(votes)
\* remainingMinus={1 - minusUsed}
remainingMinus(votes) == MAX_NEGATIVE - minusUsed(votes)

\* ------------------------------------------------------------- handleVote
\* the early returns of handleVote: TRUE when the call returns before setDoc
voteReturnsOffByOne(type, currentVote, remPlus, remMinus) ==
    IF type = "plus"
    THEN currentVote # 1 /\ ~(remPlus >= 0 \/ currentVote = -1)
    ELSE currentVote # -1 /\ ~(remMinus >= 0 \/ currentVote = 1)
voteReturns(type, currentVote, remPlus, remMinus) ==
    IF type = "plus"
    THEN currentVote # 1 /\ ~(remPlus > 0 \/ currentVote = -1)
    ELSE currentVote # -1 /\ ~(remMinus > 0 \/ currentVote = 1)

\* newVote on the paths that reach setDoc
newVoteNoToggle(type, currentVote) ==
    IF type = "plus" THEN 1 ELSE -1
newVoteToggleAny(type, currentVote) ==
    IF currentVote # 0 THEN 0
    ELSE IF type = "plus" THEN 1 ELSE -1
newVote(type, currentVote) ==
    IF type = "plus"
    THEN IF currentVote = 1 THEN 0 ELSE 1
    ELSE IF currentVote = -1 THEN 0 ELSE -1

\* { ...userVotes, [movieId]: newVote } and the removal of the 0 entries
newVotesMapNoSpread(userVotes, movieId, vote) ==
    IF vote = 0 THEN EmptyMap ELSE [k \in {movieId} |-> vote]
newVotesMapKeepZero(userVotes, movieId, vote) ==
    [k \in DOMAIN userVotes \cup {movieId} |->
        IF k = movieId THEN vote ELSE userVotes[k]]
newVotesMap(userVotes, movieId, vote) ==
    LET spread == [k \in DOMAIN userVotes \cup {movieId} |->
                      IF k = movieId THEN vote ELSE userVotes[k]]
        kept   == {k \in DOMAIN spread : spread[k] # 0}
    IN  [k \in kept |-> spread[k]]

\* what one handleVote call does with the props of the render it runs in:
\* wrote = setDoc was reached, votes = the map written (the input otherwise)
VoteOutcome(userVotes, remPlus, remMinus, movieId, type) ==
    LET currentVote == VoteOf(userVotes, movieId)
    IN  IF voteReturns(type, currentVote, remPlus, remMinus)
        THEN [wrote |-> FALSE, votes |-> userVotes]
        ELSE [wrote |-> TRUE,
              votes |-> newVotesMap(userVotes, movieId,
                                    newVote(type, currentVote))]

\* a vote on a ballot with the allowances Home derives from that ballot
ApplyVote(votes, movieId, type) ==
    VoteOutcome(votes, remainingPlus(votes), remainingMinus(votes),
                movieId, type).votes

\* the phase switch of Home's render: {phase === view && <View ... />}
ShowsAnyView(cl, view) == TRUE
Shows(cl, view) == phase[cl] = view

\* the ballot stored for a user ({} while there is none)
StoredVotesOf(uid) ==
    IF uid \in DOMAIN votesColl /\ "votes" \in DOMAIN votesColl[uid]
    THEN votesColl[uid].votes ELSE EmptyMap

\* the ids of the movie documents in the store
StoredMovieIds == {m.id : m \in moviesColl}

\* VotingPhase.handleVote(movieId, type), for the i-th listed movie.
\* lastVote observes the call: its arguments, whether it reached setDoc,
\* whether the store held a movie of that id when it ran and whether the
\* client held the stored ballot then; the ballot it was computed from is
\* myVotes[cl] for as long as lastVote names the call.
handleVote(cl, i, type) ==
    /\ user[cl] # NoUser
    /\ Shows(cl, "voting")
    /\ i \in 1..Len(movies[cl])
    /\ LET movieId == movies[cl][i].id
           remPlus == remainingPlus(myVotes[cl])
           remMinus == remainingMinus(myVotes[cl])
           out == VoteOutcome(myVotes[cl], remPlus, remMinus, movieId, type)
       IN  /\ votesColl' =
                 IF out.wrote
                 THEN SetDoc(votesColl, user[cl].uid,
                             VoteDoc(out.votes, user[cl].displayName))
                 ELSE votesColl
           /\ lastVote' = <<[client |-> cl, movieId |-> movieId,
                             type |-> type, wrote |-> out.wrote,
                             stored |-> movieId \in StoredMovieIds,
                             fresh |-> myVotes[cl]
                                          = StoredVotesOf(user[cl].uid)]>>
    /\ UNCHANGED <<authSession, configDoc, moviesColl, created,
                   user, phase, movies, myVotes, allVotes, results,
                   configWrite>>

\* --------------------------------------------------------- Home listeners
\* onAuthStateChanged: the client gets its identity
AuthStateChanged(cl) ==
    /\ user[cl] = NoUser
    /\ user' = [user EXCEPT ![cl] = authSession[cl]]
    /\ UNCHANGED <<authSession, storeVars, phase, movies, myVotes,
                   allVotes, results, configWrite, lastVote>>

\* onSnapshot(doc(db, COLL_CONFIG, DOC_STATE)): the callback sets the phase
\* when the document exists; otherwise it issues, without awaiting it,
\* setDoc(doc(db, COLL_CONFIG, DOC_STATE), { currentPhase: 'nomination' })
ConfigSnapshot(cl) ==
    /\ user[cl] # NoUser
    /\ IF configDoc # "missing"
       THEN /\ phase' = [phase EXCEPT ![cl] = configDoc]
            /\ UNCHANGED configWrite
       ELSE /\ configWrite' = [configWrite EXCEPT ![cl] = TRUE]
            /\ UNCHANGED phase
    /\ UNCHANGED <<authSession, storeVars, user, movies, myVotes, allVotes,
                   results, lastVote>>

\* the store applies the setDoc the config listener issued: the document is
\* replaced as a whole
ConfigWriteApplied(cl) ==
    /\ configWrite[cl]
    /\ configDoc' = "nomination"
    /\ configWrite' = [configWrite EXCEPT ![cl] = FALSE]
    /\ UNCHANGED <<authSession, moviesColl, created, votesColl, user, phase,
                   movies, myVotes, allVotes, results, lastVote>>

\* onSnapshot(query(collection(db, COLL_MOVIES), orderBy('createdAt','desc')))
MoviesSnapshot(cl) ==
    /\ user[cl] # NoUser
    /\ movies' = [movies EXCEPT ![cl] = OrderByCreatedAtDesc(moviesColl)]
    /\ UNCHANGED <<authSession, storeVars, user, phase, myVotes, allVotes,
                   results, configWrite, lastVote>>

\* onSnapshot(collection(db, COLL_VOTES))
VotesSnapshotMerge(cl) ==
    /\ user[cl] # NoUser
    /\ allVotes' = [allVotes EXCEPT ![cl] = SnapDocs(votesColl)]
    /\ myVotes' = [myVotes EXCEPT ![cl] =
          IF user[cl].uid \in DOMAIN votesColl
          THEN IF "votes" \in DOMAIN votesColl[user[cl].uid]
               THEN votesColl[user[cl].uid].votes @@ myVotes[cl]
               ELSE myVotes[cl]
          ELSE myVotes[cl]]
    /\ lastVote' = IF lastVote # <<>> /\ lastVote[1].client = cl
                   THEN <<>> ELSE lastVote
    /\ UNCHANGED <<authSession, storeVars, user, phase, movies, results,
                   configWrite>>
VotesSnapshot(cl) ==
    /\ user[cl] # NoUser
    /\ allVotes' = [allVotes EXCEPT ![cl] = SnapDocs(votesColl)]
    /\ myVotes' = [myVotes EXCEPT ![cl] =
          IF user[cl].uid \in DOMAIN votesColl
          THEN IF "votes" \in DOMAIN votesColl[user[cl].uid]
               THEN votesColl[user[cl].uid].votes
               ELSE EmptyMap
          ELSE EmptyMap]
    /\ lastVote' = IF lastVote # <<>> /\ lastVote[1].client = cl
                   THEN <<>> ELSE lastVote
    /\ UNCHANGED <<authSession, storeVars, user, phase, movies, results,
                   configWrite>>

\* the disabled attribute of the vote buttons of a listed movie
voteDisabledNever(type, myVote, remPlus, remMinus) == FALSE
voteDisabled(type, myVote, remPlus, remMinus) ==
    IF type = "plus"
    THEN myVote # 1 /\ remPlus = 0
    ELSE myVote # -1 /\ remMinus = 0

\* a click on the plus or minus button of the i-th listed movie
VoteButton(cl, i, type) ==
    /\ i \in 1..Len(movies[cl])
    /\ ~voteDisabled(type, VoteOf(myVotes[cl], movies[cl][i].id),
                     remainingPlus(myVotes[cl]), remainingMinus(myVotes[cl]))
    /\ handleVote(cl, i, type)

\* -------------------------------------------------------- NominationPhase
\* handleSubmit: addDoc(collection(db, COLL_MOVIES), {...}) with a title
handleSubmit(cl) ==
    /\ user[cl] # NoUser
    /\ Shows(cl, "nomination")
    /\ created < MaxCreated
    /\ created' = created + 1
    /\ moviesColl' = moviesColl \cup
          {Movie(created + 1, user[cl].uid,
                 IF user[cl].displayName # "" THEN user[cl].displayName
                 ELSE "Anonym")}
    /\ UNCHANGED <<authSession, configDoc, votesColl, user, phase, movies,
                   myVotes, allVotes, results, configWrite, lastVote>>

\* canDelete(movie)
canDeleteAny(u, movie) == u # NoUser
canDelete(u, movie) ==
    IF u = NoUser THEN FALSE
    ELSE IF u.email = ADMIN_EMAIL THEN TRUE
    ELSE movie.nominatorId = u.uid

\* the trash button of the i-th listed movie, confirmed in the modal:
\* handleDelete, deleteDoc(doc(db, COLL_MOVIES, movieId))
handleDeleteCascade(cl, i) ==
    /\ Shows(cl, "nomination")
    /\ i \in 1..Len(movies[cl])
    /\ canDelete(user[cl], movies[cl][i])
    /\ moviesColl' = {m \in moviesColl : m.id # movies[cl][i].id}
    /\ votesColl' =
          [uid \in DOMAIN votesColl |->
              IF "votes" \in DOMAIN votesColl[uid]
              THEN [votesColl[uid] EXCEPT !.votes =
                       [k \in DOMAIN votesColl[uid].votes
                                 \ {movies[cl][i].id} |->
                           votesColl[uid].votes[k]]]
              ELSE votesColl[uid]]
    /\ UNCHANGED <<authSession, configDoc, created, user, phase,
                   movies, myVotes, allVotes, results, configWrite,
                   lastVote>>
handleDelete(cl, i) ==
    /\ Shows(cl, "nomination")
    /\ i \in 1..Len(movies[cl])
    /\ canDelete(user[cl], movies[cl][i])
    /\ moviesColl' = {m \in moviesColl : m.id # movies[cl][i].id}
    /\ UNCHANGED <<authSession, configDoc, created, votesColl, user, phase,
                   movies, myVotes, allVotes, results, configWrite,
                   lastVote>>

\* ------------------------------------------------------------- AdminPanel
\* a phase button of the AdminPanel: handleSetPhase(newPhase)
handleSetPhaseForward(cl, newPhase) ==
    /\ user[cl] # NoUser
    /\ user[cl].email = ADMIN_EMAIL
    /\ newPhase \in Phases
    /\ \/ configDoc \in {"missing", "nomination"}
       \/ configDoc = "voting" /\ newPhase # "nomination"
       \/ configDoc = "results" /\ newPhase = "results"
    /\ configDoc' = newPhase
    /\ UNCHANGED <<authSession, moviesColl, created, votesColl, user, phase,
                   movies, myVotes, allVotes, results, configWrite,
                   lastVote>>
handleSetPhase(cl, newPhase) ==
    /\ user[cl] # NoUser
    /\ user[cl].email = ADMIN_EMAIL
    /\ newPhase \in Phases
    /\ configDoc' = newPhase
    /\ UNCHANGED <<authSession, moviesColl, created, votesColl, user, phase,
                   movies, myVotes, allVotes, results, configWrite,
                   lastVote>>

\* ------------------------------------------------------------------- Home
\* handleUpdateName(name), called by the identity form with a name that is
\* not blank: updateProfile, setUser, and one batch that sets nominator on
\* the movies the user nominated and merges userName into votes/uid
handleUpdateName(cl, name) ==
    /\ user[cl] # NoUser
    /\ name # ""
    /\ authSession' = [authSession EXCEPT ![cl].displayName = name]
    /\ user' = [user EXCEPT ![cl].displayName = name]
    /\ moviesColl' = {IF m.nominatorId = user[cl].uid
                      THEN [m EXCEPT !.nominator = name] ELSE m :
                      m \in moviesColl}
    /\ votesColl' = MergeDoc(votesColl, user[cl].uid, [userName |-> name])
    /\ UNCHANGED <<configDoc, created, phase, movies, myVotes, allVotes,
                   results, configWrite, lastVote>>

\* ----------------------------------------------------------- ResultsPhase
\* movies.map(m => ({ ...m, plus: 0, minus: 0, total: 0, voters: [] }))
InitialScoresDropLast(ms) ==
    [i \in 1..(Len(ms) - 1) |->
        ms[i] @@ [plus |-> 0, minus |-> 0, total |-> 0, voters |-> <<>>]]
InitialScores(ms) ==
    [i \in 1..Len(ms) |->
        ms[i] @@ [plus |-> 0, minus |-> 0, total |-> 0, voters |-> <<>>]]

\* scores.find(s => s.id === movieId): the index of the first match, 0 if none
FindScoreOrFirst(scores, movieId) ==
    IF \E i \in 1..Len(scores) : scores[i].id = movieId
    THEN CHOOSE i \in 1..Len(scores) :
            /\ scores[i].id = movieId
            /\ \A j \in 1..(i - 1) : scores[j].id # movieId
    ELSE IF Len(scores) > 0 THEN 1 ELSE 0
FindScore(scores, movieId) ==
    IF \E i \in 1..Len(scores) : scores[i].id = movieId
    THEN CHOOSE i \in 1..Len(scores) :
            /\ scores[i].id = movieId
            /\ \A j \in 1..(i - 1) : scores[j].id # movieId
    ELSE 0

\* the body of the inner forEach for one [movieId, value] of a vote document
CountEntryPlusOnly(scores, movieId, value, userName) ==
    LET i == FindScore(scores, movieId)
    IN  IF i = 0 THEN scores
        ELSE [scores EXCEPT ![i] =
                [@ EXCEPT !.plus = @ + 1,
                          !.total = @ + value,
                          !.voters = Append(@, [name |-> userName,
                                                type |-> value])]]
CountEntryPrepend(scores, movieId, value, userName) ==
    LET i == FindScore(scores, movieId)
    IN  IF i = 0 THEN scores
        ELSE [scores EXCEPT ![i] =
                [@ EXCEPT !.plus = IF value = 1 THEN @ + 1 ELSE @,
                          !.minus = IF value = 1 THEN @ ELSE @ + 1,
                          !.total = @ + value,
                          !.voters = <<[name |-> userName,
                                        type |-> value]>> \o @]]
CountEntry(scores, movieId, value, userName) ==
    LET i == FindScore(scores, movieId)
    IN  IF i = 0 THEN scores
        ELSE [scores EXCEPT ![i] =
                [@ EXCEPT !.plus = IF value = 1 THEN @ + 1 ELSE @,
                          !.minus = IF value = 1 THEN @ ELSE @ + 1,
                          !.total = @ + value,
                          !.voters = Append(@, [name |-> userName,
                                                type |-> value])]]

\* Object.entries(voteDoc.votes).forEach(...): the keys are visited in the
\* order the map holds them, which a map of the model does not record: they
\* are visited in ascending order, or in descending order when rev is TRUE
RECURSIVE CountVotes(_, _, _, _, _)
CountVotes(scores, votes, keys, userName, rev) ==
    IF keys = {} THEN scores
    ELSE LET k == IF rev
                  THEN CHOOSE x \in keys : \A y \in keys : y <= x
                  ELSE CHOOSE x \in keys : \A y \in keys : x <= y
         IN  CountVotes(CountEntry(scores, k, votes[k], userName),
                        votes, keys \ {k}, userName, rev)

\* allVotes.forEach(voteDoc => { if (!voteDoc.votes) return; ... }),
\* for the first n vote documents
RECURSIVE CountBallots(_, _, _, _)
CountBallots(scores, ballots, n, rev) ==
    IF n = 0 THEN scores
    ELSE LET before == CountBallots(scores, ballots, n - 1, rev)
             voteDoc == ballots[n]
         IN  IF "votes" \notin DOMAIN voteDoc THEN before
             ELSE CountVotes(before, voteDoc.votes, DOMAIN voteDoc.votes,
                             voteDoc.userName, rev)

\* the comparator (a, b) => b.total - a.total
Compare(a, b) == b.total - a.total

\* Array.prototype.sort is stable: an element goes behind every element that
\* the comparator does not put after it
RECURSIVE InsertSorted(_, _)
InsertSortedUnstable(sorted, x) ==
    IF sorted = <<>> THEN <<x>>
    ELSE IF Compare(Head(sorted), x) < 0
         THEN <<Head(sorted)>> \o InsertSorted(Tail(sorted), x)
         ELSE <<x>> \o sorted
InsertSorted(sorted, x) ==
    IF sorted = <<>> THEN <<x>>
    ELSE IF Compare(Head(sorted), x) <= 0
         THEN <<Head(sorted)>> \o InsertSorted(Tail(sorted), x)
         ELSE <<x>> \o sorted

RECURSIVE SortPrefix(_, _)
SortPrefix(scores, n) ==
    IF n = 0 THEN <<>>
    ELSE InsertSorted(SortPrefix(scores, n - 1), scores[n])

\* scores.sort((a, b) => b.total - a.total)
Sort(scores) == SortPrefix(scores, Len(scores))

\* the useMemo callback of ResultsPhase, for one order of the entries
ComputeResultsIn(ms, ballots, rev) ==
    Sort(CountBallots(InitialScores(ms), ballots, Len(ballots), rev))

\* the useMemo callback of ResultsPhase, the entries in ascending order
ComputeResults(ms, ballots) == ComputeResultsIn(ms, ballots, FALSE)

\* ResultsPhase is rendered: results is computed from movies and allVotes
RenderResults(cl) ==
    /\ user[cl] # NoUser
    /\ Shows(cl, "results")
    /\ \E rev \in BOOLEAN :
          results' = [results EXCEPT ![cl] =
              <<ComputeResultsIn(movies[cl], allVotes[cl], rev)>>]
    /\ UNCHANGED <<authSession, storeVars, user, phase, movies, myVotes,
                   allVotes, configWrite, lastVote>>

\* ------------------------------------------------------------- SpecBallot
\* handleVote as a function of the ballot: one signed-out client; the store
\* holds NumMovies nominations and no vote document, and the administrator
\* has opened the voting phase.  Every intent on every listed movie is
\* applied (the disabled attribute of the buttons is not part of handleVote),
\* each to the ballot the previous call produced: a vote is cast once the
\* votes listener has delivered the stored ballot.
TheVoter == [uid |-> 1, displayName |-> "ann", email |-> "ann@example.org"]

InitBallot ==
    /\ authSession = [cl \in {1} |-> TheVoter]
    /\ configDoc = "voting"
    /\ moviesColl = {Movie(id, 2, "bob") : id \in 1..NumMovies}
    /\ created = NumMovies
    /\ votesColl = EmptyMap
    /\ user = [cl \in {1} |-> NoUser]
    /\ phase = [cl \in {1} |-> "nomination"]
    /\ movies = [cl \in {1} |-> <<>>]
    /\ myVotes = [cl \in {1} |-> EmptyMap]
    /\ allVotes = [cl \in {1} |-> <<>>]
    /\ results = [cl \in {1} |-> <<>>]
    /\ configWrite = [cl \in {1} |-> FALSE]
    /\ lastVote = <<>>

\* the client holds the ballot that is in the store
Delivered(cl) == myVotes[cl] = StoredVotesOf(user[cl].uid)

NextBallot ==
    \/ \E cl \in Clients : AuthStateChanged(cl)
    \/ \E cl \in Clients : ConfigSnapshot(cl)
    \/ \E cl \in Clients : MoviesSnapshot(cl)
    \/ \E cl \in Clients : VotesSnapshot(cl)
    \/ \E cl \in Clients : \E i \in 1..Len(movies[cl]) :
          \E type \in {"plus", "minus"} :
              Delivered(cl) /\ handleVote(cl, i, type)

SpecBallot == InitBallot /\ [][NextBallot]_vars

\* the ballot stored for the voter of SpecBallot
StoredVotes == StoredVotesOf(TheVoter.uid)

\* ------------------------------------------------------------ SpecCatalog
\* The application with one client, signed in by the administrator: the
\* store starts empty, movies are nominated and deleted, the phase is set,
\* votes are cast through the buttons the voting view offers, and the
\* results are rendered.
TheAdmin == [uid |-> 1, displayName |-> "tom", email |-> ADMIN_EMAIL]

InitCatalog ==
    /\ authSession = [cl \in {1} |-> TheAdmin]
    /\ configDoc = "missing"
    /\ moviesColl = {}
    /\ created = 0
    /\ votesColl = EmptyMap
    /\ user = [cl \in {1} |-> NoUser]
    /\ phase = [cl \in {1} |-> "nomination"]
    /\ movies = [cl \in {1} |-> <<>>]
    /\ myVotes = [cl \in {1} |-> EmptyMap]
    /\ allVotes = [cl \in {1} |-> <<>>]
    /\ results = [cl \in {1} |-> <<>>]
    /\ configWrite = [cl \in {1} |-> FALSE]
    /\ lastVote = <<>>

NextCatalog ==
    \/ \E cl \in Clients : AuthStateChanged(cl)
    \/ \E cl \in Clients : ConfigSnapshot(cl)
    \/ \E cl \in Clients : ConfigWriteApplied(cl)
    \/ \E cl \in Clients : MoviesSnapshot(cl)
    \/ \E cl \in Clients : VotesSnapshot(cl)
    \/ \E cl \in Clients : handleSubmit(cl)
    \/ \E cl \in Clients : \E i \in 1..Len(movies[cl]) : handleDelete(cl, i)
    \/ \E cl \in Clients : \E p \in Phases : handleSetPhase(cl, p)
    \/ \E cl \in Clients : \E i \in 1..Len(movies[cl]) :
          \E type \in {"plus", "minus"} : VoteButton(cl, i, type)
    \/ \E cl \in Clients : RenderResults(cl)

SpecCatalog == InitCatalog /\ [][NextCatalog]_vars
\* -------------------------------------------------------------- SpecTally
\* ResultsPhase as a function of its props: a client in the results phase
\* holding any list of movies (newest first, as the movies query orders
\* them) and any list of at most MaxBallots vote documents over the ids
\* 1..NumTallyIds, with or without a votes field.
TallyIds == 1..NumTallyIds

\* the maps a ballot over the tally ids can hold
TallyMaps ==
    UNION {[ks -> {-1, 1}] : ks \in SUBSET TallyIds}

\* the vote documents of voter n: display names are per voter
TallyDocs(n) ==
    LET name == IF n = 1 THEN "ann" ELSE IF n = 2 THEN "bob" ELSE "eve"
    IN  {VoteDoc(v, name) : v \in TallyMaps} \cup {[userName |-> name]}

TallyBallots ==
    UNION {{b \in [1..n -> UNION {TallyDocs(k) : k \in 1..n}] :
               \A k \in 1..n : b[k] \in TallyDocs(k)} : n \in 0..MaxBallots}

TallyMovieLists ==
    {OrderByCreatedAtDesc({Movie(id, 2, "bob") : id \in ids}) :
        ids \in SUBSET TallyIds}

InitTally ==
    /\ authSession = [cl \in {1} |-> TheVoter]
    /\ configDoc = "results"
    /\ created = NumTallyIds
    /\ user = [cl \in {1} |-> TheVoter]
    /\ phase = [cl \in {1} |-> "results"]
    /\ \E ms \in TallyMovieLists :
          /\ movies = [cl \in {1} |-> ms]
          /\ moviesColl = {ms[i] : i \in 1..Len(ms)}
    /\ \E b \in TallyBallots :
          /\ allVotes = [cl \in {1} |-> b]
          /\ votesColl = b
    /\ myVotes = [cl \in {1} |->
          IF 1 \in DOMAIN votesColl /\ "votes" \in DOMAIN votesColl[1]
          THEN votesColl[1].votes ELSE EmptyMap]
    /\ results = [cl \in {1} |-> <<>>]
    /\ configWrite = [cl \in {1} |-> FALSE]
    /\ lastVote = <<>>

NextTally == \E cl \in Clients : RenderResults(cl)

SpecTally == InitTally /\ [][NextTally]_vars
\* --------------------------------------------------------------- SpecClub
\* Two clients, the administrator's and a guest's, on a store that starts
\* empty: both sign in, nominate and delete, and the administrator sets the
\* phase.  No vote is cast, the votes collection stays empty.
TheGuest == [uid |-> 2, displayName |-> "bob", email |-> "bob@example.org"]

InitClub ==
    /\ authSession = <<TheAdmin, TheGuest>>
    /\ configDoc = "missing"
    /\ moviesColl = {}
    /\ created = 0
    /\ votesColl = EmptyMap
    /\ user = [cl \in {1, 2} |-> NoUser]
    /\ phase = [cl \in {1, 2} |-> "nomination"]
    /\ movies = [cl \in {1, 2} |-> <<>>]
    /\ myVotes = [cl \in {1, 2} |-> EmptyMap]
    /\ allVotes = [cl \in {1, 2} |-> <<>>]
    /\ results = [cl \in {1, 2} |-> <<>>]
    /\ configWrite = [cl \in {1, 2} |-> FALSE]
    /\ lastVote = <<>>

NextClub ==
    \/ \E cl \in Clients : AuthStateChanged(cl)
    \/ \E cl \in Clients : ConfigSnapshot(cl)
    \/ \E cl \in Clients : ConfigWriteApplied(cl)
    \/ \E cl \in Clients : MoviesSnapshot(cl)
    \/ \E cl \in Clients : handleSubmit(cl)
    \/ \E cl \in Clients : \E i \in 1..Len(movies[cl]) : handleDelete(cl, i)
    \/ \E cl \in Clients : \E p \in Phases : handleSetPhase(cl, p)

SpecClub == InitClub /\ [][NextClub]_vars
\* ------------------------------------------------------------- SpecVoters
\* Two clients, the administrator's and a guest's, in the voting phase: the
\* store holds a nomination of each of them and no vote document.  Both vote
\* through the buttons and change their names; a user acts on a client once
\* the listeners of that client have delivered the store's content, while
\* the other client may hold older copies.

\* the names the identity form is submitted with
NewNames == {"kim"}

InitVoters ==
    /\ authSession = <<TheAdmin, TheGuest>>
    /\ configDoc = "voting"
    /\ moviesColl = {Movie(1, 1, "tom"), Movie(2, 2, "bob")}
    /\ created = 2
    /\ votesColl = EmptyMap
    /\ user = [cl \in {1, 2} |-> NoUser]
    /\ phase = [cl \in {1, 2} |-> "nomination"]
    /\ movies = [cl \in {1, 2} |-> <<>>]
    /\ myVotes = [cl \in {1, 2} |-> EmptyMap]
    /\ allVotes = [cl \in {1, 2} |-> <<>>]
    /\ results = [cl \in {1, 2} |-> <<>>]
    /\ configWrite = [cl \in {1, 2} |-> FALSE]
    /\ lastVote = <<>>

\* the client's copies are those its listeners deliver from the store now
Settled(cl) ==
    /\ phase[cl] = configDoc
    /\ movies[cl] = OrderByCreatedAtDesc(moviesColl)
    /\ myVotes[cl] = StoredVotesOf(user[cl].uid)
    /\ allVotes[cl] = SnapDocs(votesColl)

NextVoters ==
    \/ \E cl \in Clients : AuthStateChanged(cl)
    \/ \E cl \in Clients : ConfigSnapshot(cl)
    \/ \E cl \in Clients : MoviesSnapshot(cl)
    \/ \E cl \in Clients : VotesSnapshot(cl)
    \/ \E cl \in Clients : \E i \in 1..Len(movies[cl]) :
          \E type \in {"plus", "minus"} : Settled(cl) /\ VoteButton(cl, i, type)
    \/ \E cl \in Clients : \E name \in NewNames :
          Settled(cl) /\ handleUpdateName(cl, name)

SpecVoters == InitVoters /\ [][NextVoters]_vars
\* -------------------------------------------------------------- SpecStale
\* One voter on two clients, in the voting phase.  The voter has cast
\* MAX_POSITIVE - 1 positive votes in an earlier voting phase, for movies
\* that were deleted afterwards; the store lists three other movies.  Votes
\* are cast through the buttons of either client at any time, whatever
\* snapshot the client holds.
HeldBefore == [k \in 1..(MAX_POSITIVE - 1) |-> 1]

ListedNow == {Movie(id, 2, "bob") : id \in MAX_POSITIVE..(MAX_POSITIVE + 2)}

InitStale ==
    /\ authSession = <<TheVoter, TheVoter>>
    /\ configDoc = "voting"
    /\ moviesColl = ListedNow
    /\ created = MAX_POSITIVE + 2
    /\ votesColl = SetDoc(EmptyMap, TheVoter.uid,
                          VoteDoc(HeldBefore, TheVoter.displayName))
    /\ user = [cl \in {1, 2} |-> NoUser]
    /\ phase = [cl \in {1, 2} |-> "nomination"]
    /\ movies = [cl \in {1, 2} |-> <<>>]
    /\ myVotes = [cl \in {1, 2} |-> EmptyMap]
    /\ allVotes = [cl \in {1, 2} |-> <<>>]
    /\ results = [cl \in {1, 2} |-> <<>>]
    /\ configWrite = [cl \in {1, 2} |-> FALSE]
    /\ lastVote = <<>>

NextStale ==
    \/ \E cl \in Clients : AuthStateChanged(cl)
    \/ \E cl \in Clients : ConfigSnapshot(cl)
    \/ \E cl \in Clients : MoviesSnapshot(cl)
    \/ \E cl \in Clients : VotesSnapshot(cl)
    \/ \E cl \in Clients : \E i \in 1..Len(movies[cl]) :
          \E type \in {"plus", "minus"} : VoteButton(cl, i, type)

SpecStale == InitStale /\ [][NextStale]_vars
\* ----------------------------------------------------------- SpecConverge
\* The listeners alone, from the point on at which no user acts any more:
\* the store holds any of a few contents, and each of the two clients is
\* either not yet signed in or signed in with copies of an earlier content
\* of the store, a write of its config listener possibly still on its way.
\* Every listener of every client eventually runs, and every issued write
\* is eventually applied.
ConvergeMovie == Movie(1, 2, "bob")

ConvergeStores ==
    {2 :> VoteDoc(1 :> 1, "bob"),
     1 :> [userName |-> "tom"] @@ 2 :> VoteDoc(1 :> 1, "bob")}

\* the client has not signed in: the initial values of Home's state
FreshClient(cl) ==
    /\ user[cl] = NoUser
    /\ phase[cl] = "nomination"
    /\ movies[cl] = <<>>
    /\ myVotes[cl] = EmptyMap
    /\ allVotes[cl] = <<>>
    /\ ~configWrite[cl]

\* the client is signed in and holds copies of an earlier content (the
\* ballot possibly that of the account signed in before on the device):
\* either of the empty store or of one with a movie and a vote against it
StaleClient(cl) ==
    /\ user[cl] = authSession[cl]
    /\ phase[cl] \in Phases
    /\ \/ /\ movies[cl] = <<>>
          /\ myVotes[cl] = EmptyMap
          /\ allVotes[cl] = <<>>
       \/ /\ movies[cl] = <<ConvergeMovie>>
          /\ myVotes[cl] = 1 :> -1
          /\ allVotes[cl] = <<VoteDoc(1 :> -1, "bob")>>
    /\ configWrite[cl] \in BOOLEAN

InitConverge ==
    /\ authSession = <<TheAdmin, TheGuest>>
    /\ configDoc \in Phases \cup {"missing"}
    /\ moviesColl \in {{}, {ConvergeMovie}}
    /\ created = 1
    /\ votesColl \in ConvergeStores
    /\ user \in [{1, 2} -> {NoUser, TheAdmin, TheGuest}]
    /\ phase \in [{1, 2} -> Phases]
    /\ movies \in [{1, 2} -> {<<>>, <<ConvergeMovie>>}]
    /\ myVotes \in [{1, 2} -> {EmptyMap, 1 :> -1}]
    /\ allVotes \in [{1, 2} -> {<<>>, <<VoteDoc(1 :> -1, "bob")>>}]
    /\ configWrite \in [{1, 2} -> BOOLEAN]
    /\ \A cl \in {1, 2} : FreshClient(cl) \/ StaleClient(cl)
    /\ results = [cl \in {1, 2} |-> <<>>]
    /\ lastVote = <<>>

NextConverge ==
    \/ \E cl \in Clients : AuthStateChanged(cl)
    \/ \E cl \in Clients : ConfigSnapshot(cl)
    \/ \E cl \in Clients : ConfigWriteApplied(cl)
    \/ \E cl \in Clients : MoviesSnapshot(cl)
    \/ \E cl \in Clients : VotesSnapshot(cl)
    \/ \E cl \in Clients : RenderResults(cl)

FairConverge ==
    \A cl \in {1, 2} :
        /\ WF_vars(AuthStateChanged(cl))
        /\ WF_vars(ConfigSnapshot(cl))
        /\ WF_vars(ConfigWriteApplied(cl))
        /\ WF_vars(MoviesSnapshot(cl))
        /\ WF_vars(VotesSnapshot(cl))
        /\ WF_vars(RenderResults(cl))

SpecConverge == InitConverge /\ [][NextConverge]_vars /\ FairConverge
\* ================================================================ claims
\* The handleVote call observed by lastVote, the ballot it was computed from
\* and the ballot its voter has in the store.
Called == lastVote # <<>>
LastCall == lastVote[1]
CallInput == myVotes[LastCall.client]
CallStored == StoredVotesOf(user[LastCall.client].uid)

\* C1: after any sequence of votes, each computed from the ballot the
\* previous one produced, the stored ballot holds at most 7 entries of
\* weight +1 and at most 1 entry of weight -1.
C1_BallotWithinLimits ==
    /\ plusUsed(StoredVotes) <= MAX_POSITIVE
    /\ minusUsed(StoredVotes) <= MAX_NEGATIVE

\* C2: a Positive vote on the candidate c that holds the single -1 of a
\* ballot with 7 entries +1 is written, turns c's entry into +1, leaves
\* every other entry as it was, and the remaining positive allowance
\* computed from the written ballot is 0.
C2_ExchangeCase ==
    (/\ Called
     /\ LastCall.type = "plus"
     /\ plusUsed(CallInput) = MAX_POSITIVE
     /\ minusUsed(CallInput) = MAX_NEGATIVE
     /\ VoteOf(CallInput, LastCall.movieId) = -1)
    => /\ LastCall.wrote
       /\ VoteOf(CallStored, LastCall.movieId) = 1
       /\ \A k \in (DOMAIN CallInput \cup DOMAIN CallStored)
                      \ {LastCall.movieId} :
             VoteOf(CallStored, k) = VoteOf(CallInput, k)
       /\ remainingPlus(CallStored) = 0

\* the same-sign allowance of the ballot is 0 and the candidate has no entry
Exhausted(votes, movieId, type) ==
    /\ VoteOf(votes, movieId) = 0
    /\ IF type = "plus" THEN remainingPlus(votes) = 0
       ELSE remainingMinus(votes) = 0

\* C3: a vote whose same-sign allowance is 0, on a candidate without an
\* entry, does not reach setDoc and changes neither the votes collection nor
\* the ballot the client holds.
C3_ExhaustedNoOp ==
    [][(/\ lastVote' # <<>>
        /\ lastVote' # lastVote
        /\ Exhausted(myVotes[lastVote'[1].client], lastVote'[1].movieId,
                     lastVote'[1].type))
       => (/\ ~lastVote'[1].wrote
           /\ votesColl' = votesColl
           /\ myVotes' = myVotes)]_vars

\* C3 witness: a Positive vote on an untouched candidate of a ballot with 7
\* entries +1 has returned without a write, the store still holding that
\* ballot.
C3_Witness ==
    /\ Called
    /\ LastCall.type = "plus"
    /\ plusUsed(CallInput) = MAX_POSITIVE
    /\ LastCall.movieId \notin DOMAIN CallInput
    /\ ~LastCall.wrote
    /\ CallStored = CallInput

\* the vote repeats the sign the candidate already holds
RepeatsSign(votes, movieId, type) ==
    \/ type = "plus" /\ VoteOf(votes, movieId) = 1
    \/ type = "minus" /\ VoteOf(votes, movieId) = -1

\* C4: a Positive vote on a candidate held at +1, and a Negative vote on a
\* candidate held at -1, is written and leaves the candidate without an
\* entry, whatever the allowances.
C4_ToggleOff ==
    (Called /\ RepeatsSign(CallInput, LastCall.movieId, LastCall.type))
    => /\ LastCall.wrote
       /\ LastCall.movieId \notin DOMAIN CallStored

\* C4 witness: a +1 was toggled off while no positive allowance remained.
C4_Witness ==
    /\ Called
    /\ LastCall.type = "plus"
    /\ VoteOf(CallInput, LastCall.movieId) = 1
    /\ remainingPlus(CallInput) <= 0
    /\ LastCall.wrote
    /\ LastCall.movieId \notin DOMAIN CallStored

\* C5: every entry of every vote document in the store has weight +1 or
\* -1; a candidate whose weight became 0 has no entry.
C5_NoZeroEntry ==
    \A uid \in DOMAIN votesColl :
        "votes" \in DOMAIN votesColl[uid] =>
            \A k \in DOMAIN votesColl[uid].votes :
                votesColl[uid].votes[k] \in {-1, 1}

\* C5 witness: a vote with resulting weight 0 was written next to other
\* entries: the candidate had an entry and the stored ballot has none.
C5_Witness ==
    /\ Called
    /\ LastCall.wrote
    /\ LastCall.movieId \in DOMAIN CallInput
    /\ LastCall.movieId \notin DOMAIN CallStored
    /\ DOMAIN CallStored # {}

\* C6: the allowances handed to the voting view are never negative.
C6_AllowanceNeverNegative ==
    \A cl \in Clients :
        phase[cl] = "voting" =>
            /\ remainingPlus(myVotes[cl]) >= 0
            /\ remainingMinus(myVotes[cl]) >= 0

\* C7: a vote naming an id that no movie in the store has is ignored: it
\* does not reach setDoc.
C7_UnknownIdIgnored ==
    (Called /\ ~LastCall.stored) => ~LastCall.wrote

\* the ballot is within the limits
WithinLimits(votes) ==
    /\ plusUsed(votes) <= MAX_POSITIVE
    /\ minusUsed(votes) <= MAX_NEGATIVE

\* Positive, then Negative, then Negative again on the same candidate
RoundTrip(votes, movieId) ==
    ApplyVote(ApplyVote(ApplyVote(votes, movieId, "plus"),
                        movieId, "minus"),
              movieId, "minus")

\* C8: for a ballot within the limits with a positive and a negative
\* allowance left, and a listed candidate without an entry, Positive then
\* Negative then Negative again on that candidate gives the ballot back.
C8_ToggleRoundTrip ==
    \A cl \in Clients :
        \A i \in 1..Len(movies[cl]) :
            (/\ WithinLimits(myVotes[cl])
             /\ remainingPlus(myVotes[cl]) >= 1
             /\ remainingMinus(myVotes[cl]) >= 1
             /\ movies[cl][i].id \notin DOMAIN myVotes[cl])
            => RoundTrip(myVotes[cl], movies[cl][i].id) = myVotes[cl]

\* C8 witness: the last step of such a round trip has run on a ballot b
\* with other entries: the call was a Negative vote on the -1 that Positive
\* then Negative on b produce, and the store holds b again.
C8_Witness ==
    /\ Called
    /\ LastCall.type = "minus"
    /\ LastCall.wrote
    /\ DOMAIN CallStored # {}
    /\ LastCall.movieId \notin DOMAIN CallStored
    /\ WithinLimits(CallStored)
    /\ remainingPlus(CallStored) >= 1
    /\ remainingMinus(CallStored) >= 1
    /\ CallInput = ApplyVote(ApplyVote(CallStored, LastCall.movieId, "plus"),
                             LastCall.movieId, "minus")
    /\ VoteOf(CallInput, LastCall.movieId) = -1

\* the results a client has rendered
Rendered(cl) == results[cl] # <<>>
Ranking(cl) == results[cl][1]

\* the number of vote documents of the client that hold weight w for the id
Holding(cl, id, w) ==
    Cardinality({n \in 1..Len(allVotes[cl]) :
        /\ "votes" \in DOMAIN allVotes[cl][n]
        /\ id \in DOMAIN allVotes[cl][n].votes
        /\ allVotes[cl][n].votes[id] = w})

\* C9: every listed movie has a row in the results whose plus is the number
\* of ballots holding +1 for it, whose minus is the number holding -1, and
\* whose total is plus - minus.
C9_TallyCounts ==
    \A cl \in Clients :
        Rendered(cl) =>
            /\ \A i \in 1..Len(movies[cl]) :
                  \E j \in 1..Len(Ranking(cl)) :
                      Ranking(cl)[j].id = movies[cl][i].id
            /\ \A j \in 1..Len(Ranking(cl)) :
                  LET r == Ranking(cl)[j]
                  IN  /\ r.plus = Holding(cl, r.id, 1)
                      /\ r.minus = Holding(cl, r.id, -1)
                      /\ r.total = r.plus - r.minus

\* the total the results give the movie of that id
TotalOf(cl, id) ==
    LET j == CHOOSE k \in 1..Len(Ranking(cl)) : Ranking(cl)[k].id = id
    IN  Ranking(cl)[j].total

\* C9 witness: movies [2, 1] with the ballots {2: +1, 1: -1} and {2: +1}
\* are rendered with plus 2 and total 2 for movie 2, minus 1 and total -1
\* for movie 1.
C9_Witness ==
    /\ Rendered(1)
    /\ Len(movies[1]) = 2
    /\ Len(allVotes[1]) = 2
    /\ allVotes[1][1] = VoteDoc(2 :> 1 @@ 1 :> -1, "ann")
    /\ allVotes[1][2] = VoteDoc(2 :> 1, "bob")
    /\ TotalOf(1, 2) = 2
    /\ TotalOf(1, 1) = -1
    /\ \E j \in 1..Len(Ranking(1)) :
          Ranking(1)[j].id = 2 /\ Ranking(1)[j].plus = 2

\* the position of the movie of that id in the client's movie list
PositionOf(cl, id) == CHOOSE i \in 1..Len(movies[cl]) : movies[cl][i].id = id

\* C10: the results are in descending order of total, and two rows with the
\* same total are in the order their movies have in the movie list.
C10_TallyOrder ==
    \A cl \in Clients :
        Rendered(cl) =>
            \A i, j \in 1..Len(Ranking(cl)) :
                i < j =>
                    /\ Ranking(cl)[i].total >= Ranking(cl)[j].total
                    /\ Ranking(cl)[i].total = Ranking(cl)[j].total =>
                          PositionOf(cl, Ranking(cl)[i].id)
                              < PositionOf(cl, Ranking(cl)[j].id)

\* C10 witness: two movies with the same total, given by ballots, were
\* rendered in the order of the movie list.
C10_Witness ==
    /\ Rendered(1)
    /\ Len(Ranking(1)) = 2
    /\ Ranking(1)[1].total = Ranking(1)[2].total
    /\ Ranking(1)[1].plus = 2
    /\ Ranking(1)[2].plus = 2
    /\ Ranking(1)[1].id = movies[1][1].id
    /\ Ranking(1)[2].id = movies[1][2].id

\* the ids of the movies the client lists
ListedIds(cl) == {movies[cl][i].id : i \in 1..Len(movies[cl])}

\* the vote document without the entries of ids the client does not list
ListedEntries(cl, voteDoc) ==
    IF "votes" \notin DOMAIN voteDoc THEN voteDoc
    ELSE [voteDoc EXCEPT !.votes =
             [k \in DOMAIN voteDoc.votes \cap ListedIds(cl) |->
                 voteDoc.votes[k]]]

\* the vote documents of the client, each without its unlisted entries
ListedBallots(cl) ==
    [n \in 1..Len(allVotes[cl]) |-> ListedEntries(cl, allVotes[cl][n])]

\* C11: a ballot entry for an id that is not in the movie list gives no row
\* of its own and counts for no row: the results have one row per listed
\* movie, every voter of a row holds that row's movie, and the results are
\* those of the same ballots without the unlisted entries, so the listed
\* entries of the same ballot are counted.
C11_UnlistedIgnored ==
    \A cl \in Clients :
        Rendered(cl) =>
            /\ Len(Ranking(cl)) = Len(movies[cl])
            /\ \A j \in 1..Len(Ranking(cl)) :
                  /\ Ranking(cl)[j].id \in ListedIds(cl)
                  /\ Len(Ranking(cl)[j].voters)
                        = Holding(cl, Ranking(cl)[j].id, 1)
                          + Holding(cl, Ranking(cl)[j].id, -1)
            /\ Ranking(cl) = ComputeResults(movies[cl], ListedBallots(cl))

\* C11 witness: the list holds movie 1 only; ann's ballot {1: +1, 2: -1}
\* was tallied: movie 1 has her +1 and nothing of her entry for movie 2.
C11_Witness ==
    /\ Rendered(1)
    /\ ListedIds(1) = {1}
    /\ Len(allVotes[1]) >= 1
    /\ allVotes[1][1] = VoteDoc(1 :> 1 @@ 2 :> -1, "ann")
    /\ Len(Ranking(1)) = 1
    /\ Ranking(1)[1].plus >= 1
    /\ Ranking(1)[1].minus = 0
    /\ Ranking(1)[1].voters[1] = [name |-> "ann", type |-> 1]

\* the (name, weight) pairs of the first n vote documents of the client
\* that hold the id, in the order of the documents
RECURSIVE VotersInOrder(_, _, _)
VotersInOrder(cl, id, n) ==
    IF n = 0 THEN <<>>
    ELSE LET voteDoc == allVotes[cl][n]
             before == VotersInOrder(cl, id, n - 1)
         IN  IF "votes" \in DOMAIN voteDoc /\ id \in DOMAIN voteDoc.votes
             THEN Append(before, [name |-> voteDoc.userName,
                                  type |-> voteDoc.votes[id]])
             ELSE before

\* the number of listed movies that the ranking must put before the i-th
\* listed movie: those of a higher total, and those of the same total that
\* are listed earlier
Ahead(cl, i) ==
    Cardinality({k \in 1..Len(movies[cl]) :
        LET tk == Holding(cl, movies[cl][k].id, 1)
                    - Holding(cl, movies[cl][k].id, -1)
            ti == Holding(cl, movies[cl][i].id, 1)
                    - Holding(cl, movies[cl][i].id, -1)
        IN  tk > ti \/ (tk = ti /\ k < i)})

\* C12: the results are a function of the movie list and the list of vote
\* documents, whatever the order in which the entries of a document are
\* visited: the i-th listed movie is at the one position fixed by the
\* totals and the list order, and the voters of its row are the (name,
\* weight) pairs of the documents holding it, in the order of the documents.
C12_TallyDeterministic ==
    \A cl \in Clients :
        Rendered(cl) =>
            /\ Len(Ranking(cl)) = Len(movies[cl])
            /\ \A i \in 1..Len(movies[cl]) :
                  LET row == Ranking(cl)[Ahead(cl, i) + 1]
                  IN  /\ row.id = movies[cl][i].id
                      /\ row.voters = VotersInOrder(cl, row.id,
                                                    Len(allVotes[cl]))

\* C12 witness: a row with two voters, ann's document before bob's, was
\* rendered with ann's pair before bob's.
C12_Witness ==
    /\ Rendered(1)
    /\ Len(allVotes[1]) = 2
    /\ \E j \in 1..Len(Ranking(1)) :
          /\ Len(Ranking(1)[j].voters) = 2
          /\ Ranking(1)[j].voters[1].name = "ann"
          /\ Ranking(1)[j].voters[2].name = "bob"
          /\ Ranking(1)[j].voters[1].type # Ranking(1)[j].voters[2].type

\* the phase that is in force: the recorded one, nomination while no phase
\* has been recorded
StoredPhase == IF configDoc = "missing" THEN "nomination" ELSE configDoc

\* C13: the phase in force changes only in a step that is the
\* administrator's handleSetPhase; no listener of a client and no operation
\* of a client without the privilege replaces it.
C13_PhaseSetByAdminOnly ==
    [][StoredPhase' # StoredPhase
       => \E cl \in Clients : \E p \in Phases : handleSetPhase(cl, p)]_vars

\* the client shows the AdminPanel: its user has the administrator's email
IsAdmin(cl) == user[cl] # NoUser /\ user[cl].email = ADMIN_EMAIL

\* C14: whatever the stored phase, the administrator's panel accepts
\* handleSetPhase(q) for each of the three phases q, the step leaves q
\* stored (the stored phase is unchanged when q is the one stored), and the
\* phase in force is always one of the three.
C14_AnyPhaseToAny ==
    /\ [](\A cl \in Clients : IsAdmin(cl) =>
             \A q \in Phases : ENABLED handleSetPhase(cl, q))
    /\ [][\A cl \in Clients : \A q \in Phases :
             handleSetPhase(cl, q) =>
                 /\ configDoc' = q
                 /\ (StoredPhase = q => StoredPhase' = StoredPhase)]_vars
    /\ [](StoredPhase \in Phases)

\* C14 witness: the administrator's client has seen the phase results and
\* the store holds voting: the phase was set from results back to voting.
C14_Witness ==
    /\ IsAdmin(1)
    /\ phase[1] = "results"
    /\ configDoc = "voting"

AcceptedVoteOf(uid) ==
    /\ lastVote' # lastVote
    /\ lastVote' # <<>>
    /\ lastVote'[1].wrote
    /\ user[lastVote'[1].client].uid = uid

\* C16: the votes collection holds at most one document per user, keyed by
\* the uid; a user's document comes into existence only in a step that is
\* an accepted vote of that user, and a document that exists is never
\* removed.
C16_BallotLifecycle ==
    [][\A uid \in DOMAIN votesColl \cup DOMAIN votesColl' :
          /\ uid \in DOMAIN votesColl => uid \in DOMAIN votesColl'
          /\ uid \notin DOMAIN votesColl => AcceptedVoteOf(uid)]_vars

\* C17: a handleVote call of the user v writes at most the document
\* votes/v: every other user's document, the movies collection and the
\* config document are as before, and a call that reaches setDoc leaves a
\* document under v's own uid.
C17_OwnBallotOnly ==
    [][(lastVote' # lastVote /\ lastVote' # <<>>) =>
          LET v == user[lastVote'[1].client].uid
          IN  /\ \A uid \in (DOMAIN votesColl \cup DOMAIN votesColl') \ {v} :
                    /\ uid \in DOMAIN votesColl
                    /\ uid \in DOMAIN votesColl'
                    /\ votesColl'[uid] = votesColl[uid]
              /\ lastVote'[1].wrote => v \in DOMAIN votesColl'
              /\ moviesColl' = moviesColl
              /\ configDoc' = configDoc]_vars

\* C17 witness: the guest's vote was written while the administrator has a
\* ballot with entries; the two stored ballots differ.
C17_Witness ==
    /\ Called
    /\ LastCall.client = 2
    /\ LastCall.wrote
    /\ StoredVotesOf(1) # EmptyMap
    /\ StoredVotesOf(2) # EmptyMap
    /\ StoredVotesOf(1) # StoredVotesOf(2)

\* C18: a movie document leaves the store only in a handleDelete step of a
\* client whose user is the administrator or has the uid the movie holds as
\* nominatorId.
C18_DeleteByOwnerOrAdmin ==
    [][\A m \in moviesColl :
          m.id \notin {x.id : x \in moviesColl'} =>
             \E cl \in Clients : \E i \in 1..Len(movies[cl]) :
                 /\ handleDelete(cl, i)
                 /\ movies[cl][i].id = m.id
                 /\ user[cl] # NoUser
                 /\ \/ user[cl].email = ADMIN_EMAIL
                    \/ user[cl].uid = m.nominatorId]_vars

\* C18 witness: the guest's nomination was deleted: the store is empty and
\* a client still lists the movie, which the guest nominated, while the
\* guest's client lists the movies and is not the administrator's.
C18_Witness ==
    /\ created >= 1
    /\ moviesColl = {}
    /\ user[2] = TheGuest
    /\ Len(movies[1]) >= 1
    /\ movies[1][1].nominatorId = TheGuest.uid
    /\ Len(movies[2]) >= 1

\* C19: a handleVote step leaves the ballot the client holds as it was, and
\* the ballot it writes gives every candidate other than the one voted on
\* the weight that the client's ballot gives it.
C19_VoteFrame ==
    [][(lastVote' # lastVote /\ lastVote' # <<>>) =>
          LET cl == lastVote'[1].client
              written == IF user[cl].uid \in DOMAIN votesColl'
                            /\ "votes" \in DOMAIN votesColl'[user[cl].uid]
                         THEN votesColl'[user[cl].uid].votes ELSE EmptyMap
          IN  /\ myVotes' = myVotes
              /\ lastVote'[1].wrote =>
                    \A k \in (DOMAIN myVotes[cl] \cup DOMAIN written)
                                \ {lastVote'[1].movieId} :
                        VoteOf(written, k) = VoteOf(myVotes[cl], k)]_vars

\* C19 witness: a vote on a candidate without an entry was written from a
\* ballot holding three other entries; the client still holds that ballot
\* and the stored one has the three entries and the new one.
C19_Witness ==
    /\ Called
    /\ LastCall.wrote
    /\ Cardinality(DOMAIN CallInput) = 3
    /\ LastCall.movieId \notin DOMAIN CallInput
    /\ DOMAIN CallStored = DOMAIN CallInput \cup {LastCall.movieId}
    /\ \A k \in DOMAIN CallInput : CallStored[k] = CallInput[k]
    /\ minusUsed(CallInput) = 1

\* the movie documents without their nominator field
WithoutNominator(ms) == {[id |-> m.id, nominatorId |-> m.nominatorId] : m \in ms}

\* C20: a handleUpdateName(n) step of the user v leaves every movie that v
\* nominated with nominator n and v's vote document with userName n; the
\* votes of that document, the ids and nominatorIds of the movies, the
\* movies of other users, the vote documents of other users and the config
\* document are as before.
C20_RenameFrame ==
    [][\A cl \in Clients : \A n \in NewNames :
          handleUpdateName(cl, n) =>
             LET v == user[cl].uid
             IN  /\ \A m \in moviesColl' : m.nominatorId = v => m.nominator = n
                 /\ v \in DOMAIN votesColl =>
                       /\ v \in DOMAIN votesColl'
                       /\ votesColl'[v].userName = n
                       /\ DOMAIN votesColl'[v] = DOMAIN votesColl[v]
                       /\ "votes" \in DOMAIN votesColl[v] =>
                             votesColl'[v].votes = votesColl[v].votes
                 /\ WithoutNominator(moviesColl') = WithoutNominator(moviesColl)
                 /\ {m \in moviesColl' : m.nominatorId # v}
                       = {m \in moviesColl : m.nominatorId # v}
                 /\ DOMAIN votesColl' \ {v} = DOMAIN votesColl \ {v}
                 /\ \A uid \in DOMAIN votesColl \ {v} :
                       votesColl'[uid] = votesColl[uid]
                 /\ configDoc' = configDoc]_vars

\* C20 witness: the guest, who nominated movie 2 and holds a ballot with
\* entries, is renamed kim: movie 2 and the guest's vote document carry the
\* name, the ballot has its entries, and the administrator's movie and
\* vote document, which has entries too, carry the name tom.
C20_Witness ==
    /\ user[2] # NoUser
    /\ user[2].displayName = "kim"
    /\ Movie(2, 2, "kim") \in moviesColl
    /\ Movie(1, 1, "tom") \in moviesColl
    /\ 2 \in DOMAIN votesColl
    /\ votesColl[2].userName = "kim"
    /\ StoredVotesOf(2) # EmptyMap
    /\ 1 \in DOMAIN votesColl
    /\ votesColl[1].userName = "tom"
    /\ StoredVotesOf(1) # EmptyMap

\* C21: with votes cast through the buttons only, from whatever snapshot a
\* client holds and from either client of the voter, every stored ballot
\* has at most 7 entries +1 and at most 1 entry -1.
C21_GatedWithinLimits ==
    \A uid \in DOMAIN votesColl : WithinLimits(StoredVotesOf(uid))

\* C21 witness: a vote computed from a snapshot that was not the stored
\* ballot was written, by the second client, and the stored ballot is at
\* both limits.
C21_Witness ==
    /\ Called
    /\ LastCall.client = 2
    /\ LastCall.wrote
    /\ ~LastCall.fresh
    /\ plusUsed(CallStored) = MAX_POSITIVE
    /\ minusUsed(CallStored) = MAX_NEGATIVE

\* C22: in the voting view, the plus (minus) button of a listed movie is
\* disabled exactly when handleVote, called with that movie and intent,
\* returns before setDoc.
C22_DisabledIffNoOp ==
    \A cl \in Clients :
        (user[cl] # NoUser /\ phase[cl] = "voting") =>
            \A i \in 1..Len(movies[cl]) : \A type \in {"plus", "minus"} :
                LET myVote == VoteOf(myVotes[cl], movies[cl][i].id)
                    remPlus == remainingPlus(myVotes[cl])
                    remMinus == remainingMinus(myVotes[cl])
                IN  voteDisabled(type, myVote, remPlus, remMinus)
                       <=> voteReturns(type, myVote, remPlus, remMinus)

\* C23: a vote that reaches setDoc changes the stored ballot of its voter
\* at the voted candidate only: what earlier accepted votes stored for the
\* other candidates is still stored, also when the client has not yet
\* received the snapshot with those votes.
C23_NoVoteLost ==
    [][(lastVote' # lastVote /\ lastVote' # <<>> /\ lastVote'[1].wrote) =>
          LET v == user[lastVote'[1].client].uid
              before == StoredVotesOf(v)
              after == IF v \in DOMAIN votesColl'
                          /\ "votes" \in DOMAIN votesColl'[v]
                       THEN votesColl'[v].votes ELSE EmptyMap
          IN  \A k \in (DOMAIN before \cup DOMAIN after)
                          \ {lastVote'[1].movieId} :
                  VoteOf(after, k) = VoteOf(before, k)]_vars

\* C24: a handleVote call reaches setDoc only while the stored phase is
\* voting.
C24_WriteOnlyInVoting ==
    [][(lastVote' # lastVote /\ lastVote' # <<>> /\ lastVote'[1].wrote)
          => StoredPhase = "voting"]_vars

\* the id, nominatorId and nominator of a row of the results
CandidateOf(row) ==
    [id |-> row.id, nominatorId |-> row.nominatorId,
     nominator |-> row.nominator]

\* C25: the results are a permutation of the movie list: as many rows as
\* listed movies, every listed movie in exactly one row, which carries the
\* movie's fields; the row of a movie that no vote document holds has plus,
\* minus and total 0 and no voters, and in every row plus + minus is the
\* number of voters.
C25_TallyPermutation ==
    \A cl \in Clients :
        Rendered(cl) =>
            /\ Len(Ranking(cl)) = Len(movies[cl])
            /\ \A i \in 1..Len(movies[cl]) :
                  Cardinality({j \in 1..Len(Ranking(cl)) :
                      CandidateOf(Ranking(cl)[j]) = movies[cl][i]}) = 1
            /\ \A j \in 1..Len(Ranking(cl)) :
                  LET row == Ranking(cl)[j]
                  IN  /\ row.plus + row.minus = Len(row.voters)
                      /\ (Holding(cl, row.id, 1) + Holding(cl, row.id, -1) = 0)
                            => /\ row.plus = 0
                               /\ row.minus = 0
                               /\ row.total = 0
                               /\ row.voters = <<>>

\* C25 witness: two movies were tallied, one with a vote of each sign and
\* one that no document holds: the first row has two voters, the second
\* has none and total 0.
C25_Witness ==
    /\ Rendered(1)
    /\ Len(movies[1]) = 2
    /\ Len(Ranking(1)) = 2
    /\ Ranking(1)[1].plus = 1
    /\ Ranking(1)[1].minus = 1
    /\ Len(Ranking(1)[1].voters) = 2
    /\ Ranking(1)[2].voters = <<>>
    /\ Ranking(1)[2].total = 0
    /\ Ranking(1)[1].id # Ranking(1)[2].id

\* C27: a step that removes a movie from the store leaves every vote
\* document, the entries for the removed movie included, and every
\* client's ballot as they were, so each client's remaining allowances,
\* which count every entry of its ballot, are the same after the step.
C27_DeleteKeepsBallots ==
    [][(\E m \in moviesColl : m.id \notin {x.id : x \in moviesColl'}) =>
          /\ votesColl' = votesColl
          /\ \A cl \in Clients :
                /\ myVotes'[cl] = myVotes[cl]
                /\ remainingPlus(myVotes'[cl]) = remainingPlus(myVotes[cl])
                /\ remainingMinus(myVotes'[cl])
                      = remainingMinus(myVotes[cl])]_vars

\* C27 witness: the movie was deleted in the nomination phase after a vote
\* for it had been stored and delivered: the store has no movie, the
\* client lists none, and its ballot still holds the entry, which counts
\* against the allowance.
C27_Witness ==
    /\ created >= 1
    /\ moviesColl = {}
    /\ phase[1] = "nomination"
    /\ movies[1] = <<>>
    /\ StoredVotesOf(TheAdmin.uid) # EmptyMap
    /\ myVotes[1] = StoredVotesOf(TheAdmin.uid)
    /\ remainingPlus(myVotes[1]) + remainingMinus(myVotes[1])
          = MAX_POSITIVE + MAX_NEGATIVE - 1
    /\ lastVote = <<>>

\* the client's copies are the store's content and its results, when it
\* shows them, are those of its copies
UpToDate(cl) ==
    /\ user[cl] = authSession[cl]
    /\ phase[cl] = StoredPhase
    /\ configDoc # "missing"
    /\ movies[cl] = OrderByCreatedAtDesc(moviesColl)
    /\ myVotes[cl] = StoredVotesOf(user[cl].uid)
    /\ allVotes[cl] = SnapDocs(votesColl)
    /\ phase[cl] = "results" =>
          results[cl] = <<ComputeResults(movies[cl], allVotes[cl])>>

\* C26: once no user acts, with every listener eventually run, from some
\* point on every client's phase is the stored phase, its ballot is its
\* user's stored ballot (empty when there is none), and all clients compute
\* the same results, whatever each client held before.
C26_Convergence ==
    <>[](/\ \A cl \in Clients : UpToDate(cl)
         /\ \A c1, c2 \in Clients :
               ComputeResults(movies[c1], allVotes[c1])
                  = ComputeResults(movies[c2], allVotes[c2]))

\* C26 witness: both clients are up to date in the results phase with the
\* guest's vote counted, the guest's client holding the stored ballot and
\* the administrator's the empty one.
C26_Witness ==
    /\ \A cl \in Clients : UpToDate(cl)
    /\ configDoc = "results"
    /\ results[1] = results[2]
    /\ Len(Ranking(1)) = 1
    /\ Ranking(1)[1].plus = 1
    /\ myVotes[2] = 1 :> 1
    /\ myVotes[1] = EmptyMap
====
